---- MODULE Spec2Model ----
(***************************************************************************)
(* Comment threads of the blog server: the comments controller             *)
(* (CommentsController: comment, replyByCid, modifyCommentState) over the  *)
(* comment collection, with the detached spam check and notifications.     *)
(* Every await of a handler is a scheduling point, so each handler is a    *)
(* sequence of atomic steps that interleave with those of other requests.  *)
(***************************************************************************)
EXTENDS Integers, Sequences, FiniteSets, TLC

\* ---------------------------------------------------------------- bounds
MaxComments == 3      \* comment documents that can be created in a run
NumProcs == 2         \* requests in flight at the same time
MaxCalls == 2         \* requests served in a run
MaxPosts == 2         \* post documents that can exist in a run
MaxPage == 2          \* largest small page number a listing request asks for
MaxRuns == 3          \* calls of backupDB in a run
MaxNotes == 4         \* note documents that can exist in a run
MaxCategories == 2    \* categories that createCategory can bring the store to
MaxUploads == 3       \* requests of the upload handlers in a run

Procs == 1..NumProcs
CommentIds == 1..MaxComments
PostIds == 1..MaxPosts

\* ------------------------------------------------------------ vocabulary
NoVal == "undefined"

CommentState == [Unread |-> "Unread", Read |-> "Read", Junk |-> "Junk"]
States == {CommentState.Unread, CommentState.Read, CommentState.Junk}

CommentRefTypes == [Post |-> "Post", Note |-> "Note"]

\* The content items: item 1 is a post that accepts comments, item 2 a note
\* whose comments are switched off.
Targets ==
  (1 :> [refType |-> CommentRefTypes.Post, allowComment |-> TRUE]) @@
  (2 :> [refType |-> CommentRefTypes.Note, allowComment |-> FALSE])
TargetIds == DOMAIN Targets

\* What a request names as its target (:id and ?ref=): the two items, and an
\* id under which no post is stored.
RequestTargets ==
  { [id |-> 1, refType |-> CommentRefTypes.Post],
    [id |-> 2, refType |-> CommentRefTypes.Note],
    [id |-> 3, refType |-> CommentRefTypes.Post] }

\* Who calls: the master (commentByMaster / replyByMaster put state Read in
\* the body), a guest with an acceptable author name, a guest whose author
\* name ValidAuthorName rejects.
Callers ==
  { [isMaster |-> TRUE, authorOk |-> TRUE, state |-> CommentState.Read],
    [isMaster |-> FALSE, authorOk |-> TRUE, state |-> NoVal],
    [isMaster |-> FALSE, authorOk |-> FALSE, state |-> NoVal],
    [isMaster |-> TRUE, authorOk |-> FALSE, state |-> CommentState.Read] }

\* ref / refType / key fields a guest can put in the body next to author and
\* text (ref 0, key <<>>: the body has no such fields).
BodyRefs(who) ==
  IF ~who.isMaster /\ who.authorOk
    THEN { [ref |-> 0, refType |-> NoVal, key |-> <<>>],
           [ref |-> 2, refType |-> CommentRefTypes.Note, key |-> <<0>>] }
    ELSE { [ref |-> 0, refType |-> NoVal, key |-> <<>>] }

NoReq == [op |-> "none", id |-> 0, isMaster |-> FALSE,
          body |-> [ref |-> 0, refType |-> NoVal, key |-> <<>>, state |-> NoVal]]
NoSnap == [id |-> 0, key |-> <<>>, commentsIndex |-> 0,
           state |-> NoVal, ref |-> 0, refType |-> NoVal]
NoResp == [op |-> "none", status |-> "none", id |-> 0, state |-> NoVal]

\* ---------------------------------------------------------------- numbers
\* A query number is kept as hi * Limb + lo with 0 <= lo < Limb, so that the
\* 32-bit truncation of ~~x can be computed on it.
Limb == 65536
Norm(hi, lo) == [hi |-> hi + (lo \div Limb), lo |-> lo % Limb]
Num(n) == Norm(0, n)
Minus(a, n) == Norm(a.hi, a.lo - n)
Times(a, n) == Norm(a.hi * n, a.lo * n)
AsInt(a) == a.hi * Limb + a.lo
AtLeastOne(a) == a.hi > 0 \/ (a.hi = 0 /\ a.lo >= 1)
Negative(a) == a.hi < 0

\* ~~x: ToInt32, the value modulo 2^32 read as a signed 32-bit integer.
ToInt32(a) ==
  LET h == a.hi % Limb
  IN  [hi |-> IF h >= Limb \div 2 THEN h - Limb ELSE h, lo |-> a.lo]

\* Page numbers a listing request can carry: 0, the small ones, 2^31 - 1
\* and 2^31.
Pages ==
  {Num(n) : n \in 0..MaxPage} \cup
  {[hi |-> (Limb \div 2) - 1, lo |-> Limb - 1], [hi |-> Limb \div 2, lo |-> 0]}

\* Page sizes a listing request can carry.
Sizes == {0, 1, 2, 50, 1000}

NoListing == [endpoint |-> "none", isMaster |-> FALSE, ref |-> 0,
              page |-> Num(0), size |-> 0, piped |-> FALSE, status |-> "none",
              limit |-> 0, skip |-> Num(0), data |-> <<>>, total |-> 0]
\* backupDB: calls received, runs of mongodump and of zip, uploads started
\* and still running, and the last call: its log lines and what it returned.
NoBackup == [calls |-> 0, dumps |-> 0, zips |-> 0, uploads |-> 0, uploading |-> 0,
             enable |-> FALSE, dump |-> "none", zip |-> "none",
             log |-> <<>>, result |-> "none"]
NoShown == [endpoint |-> "none", isMaster |-> FALSE, id |-> 0, size |-> 0,
            status |-> "none", data |-> <<>>]
NoModified == [id |-> 0, hide |-> FALSE, status |-> "none", nModified |-> 0,
               message |-> "none"]

VARIABLES
  comments,   \* the comment collection: id -> document
  nextId,     \* next generated comment id
  pc,         \* position of each request handler
  req,        \* the request each handler is serving
  parent,     \* replyByCid: the parent document as read by findById
  comment,    \* id of the document the handler created (0: none)
  resp,       \* the last exchange: endpoint, outcome, comment id, state asked for
  task,       \* detached work per comment: spam check and notifications
              \* ("failed": its promise was rejected, which is only logged)
  calls,      \* requests received so far
  posts,      \* the post collection: id -> document
  listing,    \* the listing request served last and what it asked of the store
  modified,   \* the modifyPost request served last and its response
  removal,    \* deletePost per post id: "none", "deleteMany" (the post is
              \* deleted, the comments are next), "done"
  backup,     \* TasksService.backupDB: what the calls have done so far
  notes,      \* the note collection: id -> document, ids in creation order
  shown,      \* the read request served last (by id, by slug, note list) and
              \* the documents it returned
  category,   \* the category collection and the deleteCategory handlers
  upload      \* the file records, the files on disk and the upload handlers

\* One category is stored and no deleteCategory call has arrived.  stored:
\* the ids in the collection; made: categories created so far (ids are
\* given in order); at, id: position and request of each handler; calls:
\* deleteCategory requests received; resp: the last response.
NoCategory ==
  [stored |-> {1}, made |-> 1, calls |-> 0,
   at |-> [p \in Procs |-> "idle"], id |-> [p \in Procs |-> 0],
   resp |-> [proc |-> 0, status |-> "none"]]

\* Nothing has been uploaded.  files: the file collection, hashed name ->
\* record (id: its _id, data: the upload its metadata was computed from);
\* disk: hashed name -> content of the file; made: records created so far;
\* at, doc: position of each handler and what it holds; calls: requests
\* received.
NoUpload ==
  [files |-> <<>>, disk |-> <<>>, made |-> 0, calls |-> 0,
   at |-> [p \in Procs |-> "idle"],
   doc |-> [p \in Procs |-> [id |-> 0, name |-> 0, data |-> 0]]]

\* The state of the handlers modelled further down (notes, categories,
\* uploads, backup): quiet is all of it but the answer to a read request.
quiet == <<backup, notes, category, upload>>
later == <<quiet, shown>>

\* The state the comment handlers never touch.
content == <<posts, listing, modified, removal, later>>

vars == <<comments, nextId, pc, req, parent, comment, resp, task, calls, content>>

Existing == DOMAIN comments

\* --------------------------------------------------- service operations
\* CommentsService.allowComment: the target's comment switch.
allowComment(id, refType) ==
  /\ id \in TargetIds
  /\ Targets[id].refType = refType
  /\ Targets[id].allowComment

targetExists(id, refType) ==
  id \in TargetIds /\ Targets[id].refType = refType

\* The document the model layer stores for a new comment.
NewDocument(ref, refType, parentId, key, state) ==
  [ref |-> ref, refType |-> refType, parent |-> parentId,
   children |-> <<>>, commentsIndex |-> 0, key |-> key,
   state |-> IF state = NoVal THEN CommentState.Unread ELSE state]

\* BaseService.createNew: insert under a generated id.
createNew(doc) ==
  /\ comments' = comments @@ (nextId :> doc)
  /\ nextId' = nextId + 1

\* The store when the server starts serving: one thread root that a guest
\* left on item 1 earlier and that has been announced.
Init ==
  /\ comments = (1 :> NewDocument(1, CommentRefTypes.Post, 0, <<1>>, NoVal))
  /\ nextId = 2
  /\ pc = [p \in Procs |-> "idle"]
  /\ req = [p \in Procs |-> NoReq]
  /\ parent = [p \in Procs |-> NoSnap]
  /\ comment = [p \in Procs |-> 0]
  /\ resp = NoResp
  /\ task = [c \in CommentIds |-> IF c = 1 THEN "notified" ELSE "none"]
  /\ calls = 0
  /\ posts = (1 :> [hide |-> FALSE, categoryId |-> 1])
  /\ listing = NoListing
  /\ modified = NoModified
  /\ removal = [i \in PostIds |-> "none"]
  /\ backup = NoBackup
  /\ notes = (1 :> [hide |-> FALSE])
  /\ shown = NoShown
  /\ category = NoCategory
  /\ upload = NoUpload

\* The handler returns or throws: the response goes out and the request
\* context (validated body, local variables) is gone.
Finish(p, op, status, id, state) ==
  /\ pc' = [pc EXCEPT ![p] = "idle"]
  /\ resp' = [op |-> op, status |-> status, id |-> id, state |-> state]
  /\ req' = [req EXCEPT ![p] = NoReq]
  /\ parent' = [parent EXCEPT ![p] = NoSnap]
  /\ comment' = [comment EXCEPT ![p] = 0]

\* Handlers that have been started and have not yet inserted their document.
WillCreate ==
  {q \in Procs : pc[q] \in {"r_find", "r_create"}}

\* A request arrives at an idle handler slot.
Receive(p) ==
  /\ pc[p] = "idle"
  /\ calls < MaxCalls
  /\ calls' = calls + 1

\* ----------------------------------------------- CommentsController.comment
\* `Master` in the guard of the Forbidden branch is the imported parameter
\* decorator, a function object, hence truthy.
Master == TRUE

\* if (!(await allowComment(id, ref || Post)) && !Master) throw Forbidden
CommentForbidden(id, refType) == ~allowComment(id, refType) /\ ~Master

\* Variant: createComment inserts without looking the target up.
CommentOnAnyTarget(p, t, who) ==
  /\ Receive(p)
  /\ nextId + Cardinality(WillCreate) <= MaxComments
  /\ IF ~who.isMaster /\ ~who.authorOk
       THEN Finish(p, "comment", "BadInput", 0, NoVal) /\ UNCHANGED <<comments, nextId>>
       ELSE /\ createNew(NewDocument(t.id, t.refType, 0, <<nextId>>, who.state))
            /\ req' = [req EXCEPT ![p] =
                 [op |-> "comment", id |-> t.id, isMaster |-> who.isMaster,
                  body |-> [ref |-> 0, refType |-> NoVal, key |-> <<>>,
                            state |-> who.state]]]
            /\ comment' = [comment EXCEPT ![p] = nextId]
            /\ pc' = [pc EXCEPT ![p] = "c_return"]
            /\ UNCHANGED <<resp, parent>>
  /\ UNCHANGED task
  /\ UNCHANGED content

\* Variant: the new comment is keyed by the target it is left on.
CommentOnKeyedByTarget(p, t, who) ==
  /\ Receive(p)
  /\ nextId + Cardinality(WillCreate) <= MaxComments
  /\ IF ~who.isMaster /\ ~who.authorOk
       THEN Finish(p, "comment", "BadInput", 0, NoVal) /\ UNCHANGED <<comments, nextId>>
       ELSE IF ~targetExists(t.id, t.refType)
         THEN Finish(p, "comment", "NotFound", 0, NoVal) /\ UNCHANGED <<comments, nextId>>
         ELSE /\ createNew(NewDocument(t.id, t.refType, 0, <<t.id>>, who.state))
              /\ req' = [req EXCEPT ![p] =
                   [op |-> "comment", id |-> t.id, isMaster |-> who.isMaster,
                    body |-> [ref |-> 0, refType |-> NoVal, key |-> <<>>,
                              state |-> who.state]]]
              /\ comment' = [comment EXCEPT ![p] = nextId]
              /\ pc' = [pc EXCEPT ![p] = "c_return"]
              /\ UNCHANGED <<resp, parent>>
  /\ UNCHANGED task
  /\ UNCHANGED content

\* Variant: the handler never calls ValidAuthorName.
CommentOnUnvalidated(p, t, who) ==
  /\ Receive(p)
  /\ nextId + Cardinality(WillCreate) <= MaxComments
  /\ IF CommentForbidden(t.id, t.refType)
         THEN Finish(p, "comment", "Forbidden", 0, NoVal) /\ UNCHANGED <<comments, nextId>>
         ELSE IF ~targetExists(t.id, t.refType)
           THEN Finish(p, "comment", "NotFound", 0, NoVal) /\ UNCHANGED <<comments, nextId>>
           ELSE /\ createNew(NewDocument(t.id, t.refType, 0, <<nextId>>, who.state))
                /\ req' = [req EXCEPT ![p] =
                     [op |-> "comment", id |-> t.id, isMaster |-> who.isMaster,
                      body |-> [ref |-> 0, refType |-> NoVal, key |-> <<>>,
                                state |-> who.state]]]
                /\ comment' = [comment EXCEPT ![p] = nextId]
                /\ pc' = [pc EXCEPT ![p] = "c_return"]
                /\ UNCHANGED <<resp, parent>>
  /\ UNCHANGED task
  /\ UNCHANGED content

\* POST /comments/:id?ref=  (also reached through commentByMaster) for the
\* target t named by the request and the caller who: author check,
\* allowComment, then CommentsService.createComment, which throws when the
\* target does not exist and inserts the document otherwise.
CommentOn(p, t, who) ==
  /\ Receive(p)
  /\ nextId + Cardinality(WillCreate) <= MaxComments
  /\ IF ~who.isMaster /\ ~who.authorOk
       THEN Finish(p, "comment", "BadInput", 0, NoVal) /\ UNCHANGED <<comments, nextId>>
       ELSE IF CommentForbidden(t.id, t.refType)
         THEN Finish(p, "comment", "Forbidden", 0, NoVal) /\ UNCHANGED <<comments, nextId>>
         ELSE IF ~targetExists(t.id, t.refType)
           THEN Finish(p, "comment", "NotFound", 0, NoVal) /\ UNCHANGED <<comments, nextId>>
           ELSE /\ createNew(NewDocument(t.id, t.refType, 0, <<nextId>>, who.state))
                /\ req' = [req EXCEPT ![p] =
                     [op |-> "comment", id |-> t.id, isMaster |-> who.isMaster,
                      body |-> [ref |-> 0, refType |-> NoVal, key |-> <<>>,
                                state |-> who.state]]]
                /\ comment' = [comment EXCEPT ![p] = nextId]
                /\ pc' = [pc EXCEPT ![p] = "c_return"]
                /\ UNCHANGED <<resp, parent>>
  /\ UNCHANGED task
  /\ UNCHANGED content

Comment(p) == \E t \in RequestTargets, who \in Callers : CommentOn(p, t, who)

\* Variant: the handler awaits checkSpam before it returns, so a failure of
\* the spam check becomes the handler's failure.
CommentReturnAwaitingSpam(p) ==
  /\ pc[p] = "c_return"
  /\ \/ /\ task' = [task EXCEPT ![comment[p]] = "spam"]
        /\ Finish(p, "comment", "ok", comment[p], NoVal)
     \/ /\ task' = [task EXCEPT ![comment[p]] = "failed"]
        /\ Finish(p, "comment", "InternalError", 0, NoVal)
  /\ UNCHANGED <<comments, nextId, calls>>
  /\ UNCHANGED content

\* The detached promise starts checkSpam and the handler returns the comment.
CommentReturn(p) ==
  /\ pc[p] = "c_return"
  /\ task' = [task EXCEPT ![comment[p]] =
                IF req[p].isMaster THEN "pendingMaster" ELSE "pending"]
  /\ Finish(p, "comment", "ok", comment[p], NoVal)
  /\ UNCHANGED <<comments, nextId, calls>>
  /\ UNCHANGED content

\* Variant: a comment that is not spam is announced whoever wrote it.
SpamVerdictAnnounceAll(c) ==
  /\ task[c] \in {"pending", "pendingMaster"}
  /\ \/ task' = [task EXCEPT ![c] = "spam"]
     \/ task' = [task EXCEPT ![c] = "notify"]
     \/ task' = [task EXCEPT ![c] = "failed"]
  /\ UNCHANGED <<comments, nextId, pc, req, parent, comment, resp, calls>>
  /\ UNCHANGED content

\* The spam-check collaborator settles.  Spam: the promise goes on to mark
\* the comment.  Not spam: a guest's comment is announced (sendEmail to the
\* owner and broadcase), the master's is not.  A failure of checkSpam rejects
\* the detached promise and ends it.
SpamVerdict(c) ==
  /\ task[c] \in {"pending", "pendingMaster"}
  /\ \/ task' = [task EXCEPT ![c] = "spam"]
     \/ task' = [task EXCEPT ![c] = IF task[c] = "pending" THEN "notify" ELSE "ended"]
     \/ task' = [task EXCEPT ![c] = "failed"]
  /\ UNCHANGED <<comments, nextId, pc, req, parent, comment, resp, calls>>
  /\ UNCHANGED content

\* Variant: the state is set on the document in memory and never saved.
SpamContinueWithoutSave(c) ==
  /\ task[c] = "spam"
  /\ task' = [task EXCEPT ![c] = "ended"]
  /\ UNCHANGED <<comments, nextId, pc, req, parent, comment, resp, calls>>
  /\ UNCHANGED content

\* comment.state = CommentState.Junk; await comment.save()
SpamContinue(c) ==
  /\ task[c] = "spam"
  /\ comments' = [comments EXCEPT ![c].state = CommentState.Junk]
  /\ task' = [task EXCEPT ![c] = "junked"]
  /\ UNCHANGED <<nextId, pc, req, parent, comment, resp, calls>>
  /\ UNCHANGED content

\* The notification collaborators (mailer, gateway) deliver or fail.
NotifySettles(c) ==
  /\ task[c] = "notify"
  /\ \/ task' = [task EXCEPT ![c] = "notified"]
     \/ task' = [task EXCEPT ![c] = "failed"]
  /\ UNCHANGED <<comments, nextId, pc, req, parent, comment, resp, calls>>
  /\ UNCHANGED content

\* -------------------------------------------- CommentsController.replyByCid
\* POST /comments/reply/:id  (also reached through replyByMaster): the
\* handler up to findById.
ReplyOn(p, id, who) ==
  /\ Receive(p)
  /\ nextId + Cardinality(WillCreate) <= MaxComments
  /\ \E b \in BodyRefs(who) :
       IF ~who.isMaster /\ ~who.authorOk
         THEN Finish(p, "reply", "BadInput", 0, NoVal)
         ELSE /\ req' = [req EXCEPT ![p] =
                   [op |-> "reply", id |-> id,
                    isMaster |-> who.isMaster,
                    body |-> [ref |-> b.ref, refType |-> b.refType, key |-> b.key,
                             state |-> who.state]]]
              /\ pc' = [pc EXCEPT ![p] = "r_find"]
              /\ UNCHANGED <<resp, parent, comment>>
  /\ UNCHANGED <<comments, nextId, task>>
  /\ UNCHANGED content

ReplyByCid(p) == \E id \in CommentIds, who \in Callers : ReplyOn(p, id, who)

\* Variant: the handler does not test the result of findById.
ReplyFindUnchecked(p) ==
  /\ pc[p] = "r_find"
  /\ parent' = [parent EXCEPT ![p] =
       IF req[p].id \in Existing
         THEN [id |-> req[p].id,
               key |-> comments[req[p].id].key,
               commentsIndex |-> comments[req[p].id].commentsIndex,
               state |-> comments[req[p].id].state,
               ref |-> comments[req[p].id].ref,
               refType |-> comments[req[p].id].refType]
         ELSE [NoSnap EXCEPT !.id = req[p].id]]
  /\ pc' = [pc EXCEPT ![p] = "r_create"]
  /\ UNCHANGED <<req, comment, resp>>
  /\ UNCHANGED <<comments, nextId, task, calls>>
  /\ UNCHANGED content

\* findById(id).populate('ref')
ReplyFind(p) ==
  /\ pc[p] = "r_find"
  /\ IF req[p].id \notin Existing
       THEN Finish(p, "reply", "NotFound", 0, NoVal)
       ELSE /\ parent' = [parent EXCEPT ![p] =
                 [id |-> req[p].id,
                  key |-> comments[req[p].id].key,
                  commentsIndex |-> comments[req[p].id].commentsIndex,
                  state |-> comments[req[p].id].state,
                  ref |-> comments[req[p].id].ref,
                  refType |-> comments[req[p].id].refType]]
            /\ pc' = [pc EXCEPT ![p] = "r_create"]
            /\ UNCHANGED <<req, comment, resp>>
  /\ UNCHANGED <<comments, nextId, task, calls>>
  /\ UNCHANGED content

\* const key = `${parent.key}#${commentIndex}`
ReplyKey(par) == Append(par.key, par.commentsIndex)

\* Variant: key is placed before the spread of the body, so a key in the body
\* replaces the computed one.
ReplyModelKeyFirst(par, body) ==
  NewDocument(IF body.ref # 0 THEN body.ref ELSE par.ref,
              IF body.refType # NoVal THEN body.refType ELSE par.refType,
              par.id,
              IF body.key # <<>> THEN body.key ELSE ReplyKey(par),
              body.state)

\* { parent, ref: parent.ref._id, refType: parent.refType, ...body, ...ipLocation, key }
ReplyModel(par, body) ==
  NewDocument(IF body.ref # 0 THEN body.ref ELSE par.ref,
              IF body.refType # NoVal THEN body.refType ELSE par.refType,
              par.id, ReplyKey(par), body.state)

ReplyCreate(p) ==
  /\ pc[p] = "r_create"
  /\ createNew(ReplyModel(parent[p], req[p].body))
  /\ comment' = [comment EXCEPT ![p] = nextId]
  /\ pc' = [pc EXCEPT ![p] = "r_update"]
  /\ UNCHANGED <<req, parent, resp, task, calls>>
  /\ UNCHANGED content

\* Variant: the update leaves the state of the parent as the handler read it.
PromotedStateKept(childState, parentState) == parentState

\* The state written by parent.updateOne, computed from the documents the
\* handler holds in memory.
PromotedState(childState, parentState) ==
  IF childState = CommentState.Read /\ parentState # CommentState.Read
    THEN CommentState.Read
    ELSE parentState

\* Variant: the update pushes the child and leaves commentsIndex to a later
\* write that never comes.
updateOnePushOnly(stored, par, childId, childState) ==
  [stored EXCEPT !.children = Append(stored.children, childId),
                 !.state = PromotedState(childState, par.state)]

\* Variant: the new index is computed by the handler from the parent it read
\* and written back (read-modify-write) instead of $inc.
updateOneReadModifyWrite(stored, par, childId, childState) ==
  [stored EXCEPT !.children = Append(stored.children, childId),
                 !.commentsIndex = par.commentsIndex + 1,
                 !.state = PromotedState(childState, par.state)]

\* parent.updateOne({ $push: {children}, $inc: {commentsIndex: 1}, state })
\* applied by the store to the stored document in one step.
updateOne(stored, par, childId, childState) ==
  [stored EXCEPT !.children = Append(stored.children, childId),
                 !.commentsIndex = stored.commentsIndex + 1,
                 !.state = PromotedState(childState, par.state)]

\* await parent.updateOne(...), then sendEmail / broadcase are started and
\* not awaited, and the handler returns.
ReplyUpdate(p) ==
  /\ pc[p] = "r_update"
  /\ comments' = [comments EXCEPT ![parent[p].id] =
                    updateOne(comments[parent[p].id], parent[p], comment[p],
                              ReplyModel(parent[p], req[p].body).state)]
  /\ task' = [task EXCEPT ![comment[p]] = "notify"]
  /\ Finish(p, "reply", "ok", 0, NoVal)
  /\ UNCHANGED <<nextId, calls>>
  /\ UNCHANGED content

\* ------------------------------------ CommentsController.modifyCommentState
\* BaseService.updateAsync({_id: id}, {state}): a partial update; a filter
\* that matches nothing modifies nothing and is not an error.
updateAsync(store, id, state) ==
  IF id \in DOMAIN store
    THEN [threw |-> FALSE, store |-> [store EXCEPT ![id].state = state]]
    ELSE [threw |-> FALSE, store |-> store]

\* Variant: the handler refuses to moderate a comment that is Junk.
ModifyCommentStateGuarded(p) ==
  /\ Receive(p)
  /\ \E id \in CommentIds, state \in States :
       IF id \in Existing /\ comments[id].state = CommentState.Junk
         THEN /\ Finish(p, "moderate", "Forbidden", id, state)
              /\ UNCHANGED comments
         ELSE LET query == updateAsync(comments, id, state)
              IN  /\ comments' = query.store
                  /\ Finish(p, "moderate", IF query.threw THEN "NotFound" ELSE "ok", id, state)
  /\ UNCHANGED <<nextId, task>>
  /\ UNCHANGED content

\* PATCH /comments/:id
\* try { return await updateAsync(...) } catch { throw new CannotFindException() }
ModifyCommentState(p) ==
  /\ Receive(p)
  /\ \E id \in CommentIds, state \in States :
       LET query == updateAsync(comments, id, state)
       IN  /\ comments' = query.store
           /\ Finish(p, "moderate", IF query.threw THEN "NotFound" ELSE "ok", id, state)
  /\ UNCHANGED <<nextId, task>>
  /\ UNCHANGED content

\* ------------------------------------------------ the controller in src/
\* src/shared/comments/comments.controller.ts is a second CommentsController.
\* Its replyByCid begins like the one above (ReplyByCid, ReplyFind) and its
\* modifyCommentState is the same; comment and the rest of replyByCid differ.

\* comment() for the target t and the caller who
\* try { return await createComment(...) } catch { throw new CannotFindException() }
LegacyCommentOn(p, t, who) ==
  /\ Receive(p)
  /\ nextId + Cardinality(WillCreate) <= MaxComments
  /\ IF ~who.isMaster /\ ~who.authorOk
       THEN Finish(p, "comment", "BadInput", 0, NoVal) /\ UNCHANGED <<comments, nextId>>
       ELSE IF ~targetExists(t.id, t.refType)
         THEN Finish(p, "comment", "NotFound", 0, NoVal) /\ UNCHANGED <<comments, nextId>>
         ELSE /\ createNew(NewDocument(t.id, t.refType, 0, <<nextId>>, NoVal))
              /\ Finish(p, "comment", "ok", nextId, NoVal)
  /\ UNCHANGED task
  /\ UNCHANGED content

LegacyComment(p) ==
  \E t \in RequestTargets, who \in Callers : LegacyCommentOn(p, t, who)

\* const key = `${parent.key}#${commentIndex + 1}`
LegacyReplyKey(par) == Append(par.key, par.commentsIndex + 1)

\* replyByMaster of this controller puts no state in the body.
LegacyReplyModel(par, body) ==
  NewDocument(IF body.ref # 0 THEN body.ref ELSE par.ref,
              IF body.refType # NoVal THEN body.refType ELSE par.refType,
              par.id, LegacyReplyKey(par), NoVal)

LegacyReplyCreate(p) ==
  /\ pc[p] = "r_create"
  /\ createNew(LegacyReplyModel(parent[p], req[p].body))
  /\ comment' = [comment EXCEPT ![p] = nextId]
  /\ pc' = [pc EXCEPT ![p] = "lr_update"]
  /\ UNCHANGED <<req, parent, resp, task, calls>>
  /\ UNCHANGED content

\* parent.updateOne({ $push: {children}, $inc: {commentsIndex: 1} })
LegacyUpdateOne(stored, childId) ==
  [stored EXCEPT !.children = Append(stored.children, childId),
                 !.commentsIndex = stored.commentsIndex + 1]

LegacyReplyUpdate(p) ==
  /\ pc[p] = "lr_update"
  /\ comments' = [comments EXCEPT ![parent[p].id] =
                    LegacyUpdateOne(comments[parent[p].id], comment[p])]
  /\ Finish(p, "reply", "ok", 0, NoVal)
  /\ UNCHANGED <<nextId, task, calls>>
  /\ UNCHANGED content

\* ------------------------------------------------------------- listings
\* The state the listing and post handlers never touch.
threads == <<comments, nextId, pc, req, parent, comment, resp, task, calls>>

\* Descending sequence of a set of ids: sort { created: -1 }, ids being
\* generated in creation order.
RECURSIVE SortedDesc(_)
SortedDesc(S) ==
  IF S = {} THEN <<>>
  ELSE LET m == CHOOSE x \in S : \A y \in S : y <= x
       IN  <<m>> \o SortedDesc(S \ {m})

\* The class-validator rules of the pager DTO: page @Min(1), size @Min(1)
\* @Max(50).
PagerValid(page, size) == AtLeastOne(page) /\ size >= 1 /\ size <= 50

\* BaseService.findWithPaginator on the sorted sequence of the documents
\* that match the filter: the page of limit items after skip and the count
\* of all matches.  The store refuses a negative skip.
findWithPaginator(matching, limit, skip) ==
  IF Negative(skip)
    THEN [status |-> "InternalError", data |-> <<>>, total |-> 0]
    ELSE [status |-> "ok",
          data |-> IF skip.hi > 0 \/ skip.lo >= Len(matching) THEN <<>>
                   ELSE IF skip.lo + limit > Len(matching)
                     THEN SubSeq(matching, skip.lo + 1, Len(matching))
                     ELSE SubSeq(matching, skip.lo + 1, skip.lo + limit),
          total |-> Len(matching)]

\* listing, modified and shown hold the answer to the latest request of the
\* content handlers: a handler that writes one clears the others.
\* A listing request: the validation pipe, where one is installed, rejects a
\* query that breaks the DTO rules; otherwise the handler hands limit and
\* skip to findWithPaginator and returns its result.
Serve(endpoint, isMaster, ref, page, size, piped, limit, skip, matching) ==
  /\ listing' =
       IF piped /\ ~PagerValid(page, size)
         THEN [NoListing EXCEPT !.endpoint = endpoint, !.isMaster = isMaster,
                 !.ref = ref, !.page = page, !.size = size, !.piped = piped,
                 !.status = "BadInput"]
         ELSE LET found == findWithPaginator(matching, limit, skip)
              IN  [endpoint |-> endpoint, isMaster |-> isMaster, ref |-> ref,
                   page |-> page, size |-> size, piped |-> piped,
                   status |-> found.status, limit |-> limit, skip |-> skip,
                   data |-> found.data, total |-> found.total]
  /\ modified' = NoModified
  /\ shown' = NoShown
  /\ UNCHANGED <<threads, posts, removal, quiet>>

\* addConditionToSeeHideContent(isMaster) applied to the posts.
VisiblePosts(isMaster) ==
  {i \in DOMAIN posts : isMaster \/ ~posts[i].hide}

\* addConditionToSeeHideContent(isMaster) applied to the notes (notes with a
\* password are not modelled).
VisibleNotes(isMaster) ==
  {n \in DOMAIN notes : isMaster \/ ~notes[n].hide}

\* Variant: the handler lists hidden posts to every caller.
GetAllIgnoringHide ==
  \E isMaster \in BOOLEAN, page \in Pages, size \in Sizes, piped \in BOOLEAN :
    Serve("posts", isMaster, 0, page, size, piped,
          size, Times(Minus(page, 1), size),
          SortedDesc(VisiblePosts(TRUE)))

\* PostsController.getAll
\* { limit: size, skip: (page - 1) * size, sort: { created: -1 } }
GetAll ==
  \E isMaster \in BOOLEAN, page \in Pages, size \in Sizes, piped \in BOOLEAN :
    Serve("posts", isMaster, 0, page, size, piped,
          size, Times(Minus(page, 1), size),
          SortedDesc(VisiblePosts(isMaster)))

\* The filter of getCommentsByRefId: thread roots of the target that are
\* Unread (0) or Read (1).
RootsOf(ref) ==
  {c \in Existing :
     /\ comments[c].parent = 0
     /\ comments[c].ref = ref
     /\ comments[c].state \in {CommentState.Unread, CommentState.Read}}

\* Variant: the listing selects the thread roots of the target whatever their
\* state.
GetCommentsByRefIdAnyState ==
  \E ref \in TargetIds, page \in Pages, size \in Sizes, piped \in BOOLEAN :
    Serve("comments", FALSE, ref, page, size, piped,
          size, Times(Minus(page, 1), size),
          SortedDesc({c \in Existing :
                        comments[c].parent = 0 /\ comments[c].ref = ref}))

\* CommentsController.getCommentsByRefId
GetCommentsByRefId ==
  \E ref \in TargetIds, page \in Pages, size \in Sizes, piped \in BOOLEAN :
    Serve("comments", FALSE, ref, page, size, piped,
          size, Times(Minus(page, 1), size),
          SortedDesc(RootsOf(ref)))

\* NotesController.getNotes
GetNotes ==
  \E isMaster \in BOOLEAN, page \in Pages, size \in Sizes, piped \in BOOLEAN :
    Serve("notes", isMaster, 0, page, size, piped,
          size, Times(Minus(page, 1), size),
          SortedDesc(VisibleNotes(isMaster)))

\* skip: (~~page - 1) * ~~size
AnalyzeSkip(page, size) ==
  Times(Minus(ToInt32(page), 1), AsInt(ToInt32(Num(size))))

\* limit: ~~size
AnalyzeLimit(size) == AsInt(ToInt32(Num(size)))

\* AnalyzeController.getAnalyze (the access records are not part of the
\* model: the listing finds none).
GetAnalyze ==
  \E page \in Pages, size \in Sizes, piped \in BOOLEAN :
    Serve("analyze", TRUE, 0, page, size, piped,
          AnalyzeLimit(size), AnalyzeSkip(page, size), <<>>)

\* AnalyzeController.getAnalyzeToday
GetAnalyzeToday ==
  \E page \in Pages, size \in Sizes, piped \in BOOLEAN :
    Serve("analyzeToday", TRUE, 0, page, size, piped,
          AnalyzeLimit(size), AnalyzeSkip(page, size), <<>>)

\* ------------------------------------------------------- PostsController
\* PostsController.createNew: hide = false unless the body says otherwise.
\* The body names a category that is stored when the request arrives; the
\* handler inserts the document without looking the category up.
CreatePost ==
  LET used == DOMAIN posts \cup {i \in PostIds : removal[i] # "none"}
  IN  /\ Cardinality(used) < MaxPosts
      /\ \E hide \in BOOLEAN, categoryId \in category.stored :
           posts' = posts @@ ((Cardinality(used) + 1) :>
                               [hide |-> hide, categoryId |-> categoryId])
      /\ UNCHANGED <<threads, listing, modified, removal, later>>

\* BaseService.update(filter, patch): a partial update that reports how many
\* documents it modified; a filter that matches nothing is not an error.
update(store, id, patch) ==
  IF id \in DOMAIN store
    THEN [threw |-> FALSE,
          nModified |-> IF store[id].hide = patch.hide THEN 0 ELSE 1,
          store |-> [store EXCEPT ![id].hide = patch.hide]]
    ELSE [threw |-> FALSE, nModified |-> 0, store |-> store]

\* Variant: the handler answers NotFound when nothing was modified.
ModifyPostStrict ==
  \E id \in PostIds, hide \in BOOLEAN :
    LET updateDocument == update(posts, id, [hide |-> hide])
    IN  /\ posts' = updateDocument.store
        /\ modified' =
             IF updateDocument.nModified = 0
               THEN [id |-> id, hide |-> hide, status |-> "NotFound",
                     nModified |-> 0, message |-> "none"]
               ELSE [id |-> id, hide |-> hide, status |-> "ok",
                     nModified |-> updateDocument.nModified,
                     message |-> "post modified"]
        /\ listing' = NoListing
        /\ shown' = NoShown
        /\ UNCHANGED <<threads, removal, quiet>>

\* PostsController.modifyPost
\* { ...updateDocument, message: updateDocument.nModified ? <modified> : <no post was modified> }
ModifyPost ==
  \E id \in PostIds, hide \in BOOLEAN :
    LET updateDocument == update(posts, id, [hide |-> hide])
    IN  /\ posts' = updateDocument.store
        /\ modified' =
             [id |-> id, hide |-> hide,
              status |-> IF updateDocument.threw THEN "InternalError" ELSE "ok",
              nModified |-> updateDocument.nModified,
              message |-> IF updateDocument.nModified # 0
                            THEN "post modified"
                            ELSE "no post was modified"]
        /\ listing' = NoListing
        /\ shown' = NoShown
        /\ UNCHANGED <<threads, removal, quiet>>

\* PostsService.deletePost, first statement: postModel.deleteOne({ _id: id }).
\* (A delete of an id no post has changes nothing and is left out.)
DeletePost ==
  \E id \in DOMAIN posts :
    /\ removal[id] = "none"
    /\ posts' = [i \in DOMAIN posts \ {id} |-> posts[i]]
    /\ removal' = [removal EXCEPT ![id] = "deleteMany"]
    /\ UNCHANGED <<threads, listing, modified, later>>

\* The pid of a stored comment (0: it has none): the handlers store the
\* commented item as ref (comment, replyByCid, getCommentsByRefId) and none
\* writes a pid.
pid(c) == 0

\* Model.deleteMany(filter) on the comment collection: the documents left.
deleteMany(matching) ==
  [c \in Existing \ matching |-> comments[c]]

\* PostsService.deletePost, second statement: commentModel.deleteMany({ pid:
\* id }); PostsController.deletePost then broadcasts and answers 'OK'.
DeletePostComments ==
  \E id \in PostIds :
    /\ removal[id] = "deleteMany"
    /\ comments' = deleteMany({c \in Existing : pid(c) = id})
    /\ removal' = [removal EXCEPT ![id] = "done"]
    /\ UNCHANGED <<nextId, pc, req, parent, comment, resp, task, calls>>
    /\ UNCHANGED <<posts, listing, modified, later>>

\* ------------------------------------------------------------ TasksService
\* What the handlers of the posts and of the comments hold.
site == <<threads, posts, listing, modified, removal>>
\* What a call of backupDB leaves alone.
notBackup == <<site, notes, shown, category, upload>>

\* One call of backupDB on the state b of the earlier calls.  The call is
\* synchronous (mkdirp.sync, execSync, readFileSync).  enable is the
\* configuration switch; made, dump and zip say how mkdirp, mongodump and
\* zip end; configured: the cloud options are complete; zipped: the archive
\* is where zip should have left it.  attempts is the number of times the
\* dump is run before giving up.
backupDB(b, attempts, enable, uploadCOS, made, dump, zip, configured, zipped) ==
  LET start == [b EXCEPT !.calls = @ + 1, !.enable = enable, !.dump = "none",
                         !.zip = "none", !.log = <<>>, !.result = "none"]
  IN  IF ~enable THEN start
      ELSE IF ~made THEN [start EXCEPT !.log = <<"backing up">>, !.result = "threw"]
      ELSE IF dump = "failed" THEN
        [start EXCEPT !.dumps = @ + attempts, !.dump = "failed",
                      !.log = <<"backing up", "error: backup failed">>]
      ELSE IF zip = "failed" THEN
        [start EXCEPT !.dumps = @ + 1, !.dump = "ok",
                      !.zips = @ + 1, !.zip = "failed",
                      !.log = <<"backing up", "error: backup failed">>]
      ELSE
        LET done == [start EXCEPT !.dumps = @ + 1, !.dump = "ok",
                                  !.zips = @ + 1, !.zip = "ok",
                                  !.log = <<"backing up", "backup done">>,
                                  !.result = IF zipped THEN "file" ELSE "threw"]
        IN  IF ~uploadCOS \/ ~configured THEN done
            ELSE IF ~zipped
              THEN [done EXCEPT !.log = Append(@, "warn: no file to upload")]
              ELSE [done EXCEPT !.log = Append(@, "uploading"),
                                !.uploads = @ + 1, !.uploading = @ + 1]

\* Variant: a failed dump is run a second time.
BackupDBRetrying ==
  /\ backup.calls < MaxRuns
  /\ \E enable \in BOOLEAN, uploadCOS \in BOOLEAN, made \in BOOLEAN,
        dump \in {"ok", "failed"}, zip \in {"ok", "failed"},
        configured \in BOOLEAN, zipped \in BOOLEAN :
       backup' = backupDB(backup, 2, enable, uploadCOS, made, dump, zip,
                          configured, zipped)
  /\ UNCHANGED notBackup

\* TasksService.backupDB, run by the daily cron job or called with
\* { uploadCOS }.
BackupDB ==
  /\ backup.calls < MaxRuns
  /\ \E enable \in BOOLEAN, uploadCOS \in BOOLEAN, made \in BOOLEAN,
        dump \in {"ok", "failed"}, zip \in {"ok", "failed"},
        configured \in BOOLEAN, zipped \in BOOLEAN :
       backup' = backupDB(backup, 1, enable, uploadCOS, made, dump, zip,
                          configured, zipped)
  /\ UNCHANGED notBackup

\* The callback of cos.sliceUploadFile: the upload ended, well or not.
UploadSettles ==
  /\ backup.uploading > 0
  /\ \E line \in {"uploaded", "error: upload failed"} :
       backup' = [backup EXCEPT !.uploading = @ - 1, !.log = Append(@, line)]
  /\ UNCHANGED notBackup

\* --------------------------------------------------------- NotesController
\* What the note handlers leave alone.
notNotes == <<site, backup, category, upload>>

\* A read request by id is answered (shown' says how): the earlier answers
\* are gone and nothing is written.
Shown ==
  /\ listing' = NoListing
  /\ modified' = NoModified
  /\ UNCHANGED <<threads, posts, removal, quiet>>

\* Answers of the read handlers.
Answer(endpoint, isMaster, id, size, status, data) ==
  [endpoint |-> endpoint, isMaster |-> isMaster, id |-> id, size |-> size,
   status |-> status, data |-> data]

\* PostsController.getById: PostsService.findPostById(id), which looks the
\* post up by its id alone.
GetById ==
  \E id \in PostIds, isMaster \in BOOLEAN :
    /\ shown' = IF id \in DOMAIN posts
                  THEN Answer("postById", isMaster, id, 0, "ok", <<id>>)
                  ELSE Answer("postById", isMaster, id, 0, "NotFound", <<>>)
    /\ Shown

\* PostsController.getByCateAndSlug: findOne({ slug, categoryId }); the
\* visibility condition is commented out.  id is the post the category and
\* the slug of the request name.
GetByCateAndSlug ==
  \E id \in PostIds, isMaster \in BOOLEAN :
    /\ shown' = IF id \in DOMAIN posts
                  THEN Answer("postBySlug", isMaster, id, 0, "ok", <<id>>)
                  ELSE Answer("postBySlug", isMaster, id, 0, "NotFound", <<>>)
    /\ Shown

\* NotesController.getOneNote: the note, if the caller may see it, with the
\* nearest older (next) and the nearest newer (prev) note the caller may see.
GetOneNote ==
  \E id \in 1..MaxNotes, isMaster \in BOOLEAN :
    LET visible == VisibleNotes(isMaster)
        older == {n \in visible : n < id}
        newer == {n \in visible : n > id}
        next == IF older = {} THEN <<>>
                ELSE <<CHOOSE n \in older : \A o \in older : o <= n>>
        prev == IF newer = {} THEN <<>>
                ELSE <<CHOOSE n \in newer : \A o \in newer : n <= o>>
    IN  /\ shown' = IF id \in visible
                      THEN Answer("note", isMaster, id, 0, "ok",
                                  <<id>> \o next \o prev)
                      ELSE Answer("note", isMaster, id, 0, "NotFound", <<>>)
        /\ Shown

NoteIds == 1..MaxNotes
\* ?size= of the note list (10 when absent).
ListSizes == {1, 2, 3, 4, 10}

\* NotesController.createNewNote
CreateNote ==
  /\ Cardinality(DOMAIN notes) < MaxNotes
  /\ \E hide \in BOOLEAN :
       notes' = notes @@ ((Cardinality(DOMAIN notes) + 1) :> [hide |-> hide])
  /\ UNCHANGED <<notNotes, shown>>

\* BaseService.findAsync(filter, { limit, sort }) on the sorted sequence of
\* the matching documents: the first limit of them (the store reads a
\* negative limit as its absolute value).
findAsync(matching, limit) ==
  LET n == IF limit < 0 THEN -limit ELSE limit
  IN  SubSeq(matching, 1, IF n < Len(matching) THEN n ELSE Len(matching))

Floor(size) == size \div 2

\* NotesController.getNoteList: the current note, the first half - 1 of the
\* newer notes and the first half of the older notes, both lists read with
\* sort { created: -1 }, put together and sorted newest first.
GetNoteList ==
  \E id \in NoteIds, size \in ListSizes, isMaster \in BOOLEAN :
    LET half == Floor(size)
        visible == VisibleNotes(isMaster)
        prevList == IF half - 1 = 0 THEN <<>>
                    ELSE findAsync(SortedDesc({n \in visible : n > id}), half - 1)
        nextList == IF half = 0 THEN <<>>
                    ELSE findAsync(SortedDesc({n \in visible : n < id}), half)
        data == SortedDesc({prevList[i] : i \in DOMAIN prevList}
                           \cup {nextList[i] : i \in DOMAIN nextList} \cup {id})
    IN  /\ shown' = IF id \notin visible
                      THEN [endpoint |-> "noteList", isMaster |-> isMaster,
                            id |-> id, size |-> size, status |-> "NotFound",
                            data |-> <<>>]
                      ELSE [endpoint |-> "noteList", isMaster |-> isMaster,
                            id |-> id, size |-> size, status |-> "ok",
                            data |-> data]
        /\ Shown

\* ---------------------------------------------------- CategoriesController
\* What the category handlers leave alone.
notCategories == <<site, backup, notes, shown, upload>>

\* Ids a category can have: those of createCategory and one default
\* category per deleteCategory call.
CategoryIds == 1..(MaxCategories + MaxCalls)

\* CategoriesController.createCategory
CreateCategory ==
  /\ category.made < MaxCategories
  /\ category' = [category EXCEPT !.stored = @ \cup {category.made + 1},
                                  !.made = @ + 1]
  /\ UNCHANGED notCategories

\* CategoriesService.findPostsInCategory(id)
findPostsInCategory(id) == {i \in DOMAIN posts : posts[i].categoryId = id}

\* Handler p moves to step at; with a status, the response goes out.
CategoryStep(p, at, status) ==
  [category EXCEPT !.at[p] = at,
                   !.resp = IF status = "none" THEN @
                            ELSE [proc |-> p, status |-> status]]

\* deleteCategory, up to findById: a category that is not stored is
\* answered with CannotFindException.
DeleteCategoryFindById(p) ==
  /\ category.at[p] = "idle"
  /\ category.calls < MaxCalls
  /\ \E id \in 1..category.made :
       category' =
         [(IF id \in category.stored
             THEN CategoryStep(p, "findPostsInCategory", "none")
             ELSE CategoryStep(p, "idle", "NotFound"))
            EXCEPT !.id[p] = id, !.calls = @ + 1]
  /\ UNCHANGED notCategories

\* deleteCategory, findPostsInCategory: a category with posts is answered
\* with UnprocessableEntityException.
DeleteCategoryFindPosts(p) ==
  /\ category.at[p] = "findPostsInCategory"
  /\ category' = IF findPostsInCategory(category.id[p]) # {}
                   THEN CategoryStep(p, "idle", "UnprocessableEntity")
                   ELSE CategoryStep(p, "deleteOne", "none")
  /\ UNCHANGED notCategories

\* deleteCategory, deleteOne({ _id: category._id })
DeleteCategoryDeleteOne(p) ==
  /\ category.at[p] = "deleteOne"
  /\ category' = [CategoryStep(p, "countDocument", "none")
                    EXCEPT !.stored = @ \ {category.id[p]}]
  /\ UNCHANGED notCategories

\* Variant: the handler returns after deleteOne.
DeleteCategoryNoDefault(p) ==
  /\ category.at[p] = "countDocument"
  /\ category' = CategoryStep(p, "return", "none")
  /\ UNCHANGED notCategories

\* deleteCategory, countDocument({}) === 0
DeleteCategoryCount(p) ==
  /\ category.at[p] = "countDocument"
  /\ category' = IF Cardinality(category.stored) = 0
                   THEN CategoryStep(p, "createDefaultCategory", "none")
                   ELSE CategoryStep(p, "return", "none")
  /\ UNCHANGED notCategories

\* deleteCategory, createDefaultCategory()
DeleteCategoryCreateDefault(p) ==
  /\ category.at[p] = "createDefaultCategory"
  /\ category' = [CategoryStep(p, "return", "none")
                    EXCEPT !.stored = @ \cup {category.made + 1},
                           !.made = @ + 1]
  /\ UNCHANGED notCategories

\* deleteCategory, return res
DeleteCategoryReturn(p) ==
  /\ category.at[p] = "return"
  /\ category' = CategoryStep(p, "idle", "ok")
  /\ UNCHANGED notCategories

\* ------------------------------------------------------------ UploadsService
\* What the upload handlers leave alone.
notUploads == <<site, backup, notes, shown, category>>

Filenames == {1, 2}
Uploads == {1, 2}

\* crypto.createHash('md5').update(filename).digest('hex'): distinct
\* filenames of the model have distinct digests.
md5(filename) == 100 + filename
HashedNames == {md5(f) : f \in Filenames}

\* A function without the arguments in gone.
Without(f, gone) == [x \in DOMAIN f \ gone |-> f[x]]

\* Handler p moves to step at holding doc.
UploadStep(p, at, doc) ==
  [upload EXCEPT !.at[p] = at, !.doc[p] = doc]

\* saveImage, up to updateOne({ name }, metadata, { upsert: true }): the
\* record of the name takes the metadata of this upload and keeps its _id; a
\* name without a record gets a new one.
SaveImageUpdateOne(p) ==
  /\ upload.at[p] = "idle"
  /\ upload.calls < MaxUploads
  /\ \E filename \in Filenames, data \in Uploads :
       LET name == md5(filename)
           had == name \in DOMAIN upload.files
           id == IF had THEN upload.files[name].id ELSE upload.made + 1
       IN  upload' =
             [UploadStep(p, "writeFileSync",
                         [id |-> id, name |-> name, data |-> data])
                EXCEPT !.files = (name :> [id |-> id, data |-> data]) @@ @,
                       !.made = IF had THEN @ ELSE @ + 1,
                       !.calls = @ + 1]
  /\ UNCHANGED notUploads

\* saveImage, if (!existsSync(path)) writeFileSync(path, data)
SaveImageWrite(p) ==
  /\ upload.at[p] = "writeFileSync"
  /\ LET name == upload.doc[p].name
     IN  upload' =
           [UploadStep(p, "idle", upload.doc[p])
              EXCEPT !.disk = IF name \in DOMAIN upload.disk THEN @
                              ELSE (name :> upload.doc[p].data) @@ @]
  /\ UNCHANGED notUploads

\* deleteFile, findById(id): an id without a record is answered with
\* CannotFindException.
DeleteFileFindById(p) ==
  /\ upload.at[p] = "idle"
  /\ upload.calls < MaxUploads
  /\ \E id \in 1..upload.made :
       LET found == {n \in DOMAIN upload.files : upload.files[n].id = id}
       IN  upload' =
             [(IF found = {}
                 THEN UploadStep(p, "idle", [id |-> id, name |-> 0, data |-> 0])
                 ELSE UploadStep(p, "deleteOne",
                                 [id |-> id, name |-> CHOOSE n \in found : TRUE,
                                  data |-> 0]))
                EXCEPT !.calls = @ + 1]
  /\ UNCHANGED notUploads

\* The records without the one whose _id is id.
deleteOne(files, id) ==
  Without(files, {n \in DOMAIN files : files[n].id = id})

\* deleteFile, deleteOne({ _id: id })
DeleteFileDeleteOne(p) ==
  /\ upload.at[p] = "deleteOne"
  /\ upload' = [UploadStep(p, "unlinkSync", upload.doc[p])
                  EXCEPT !.files = deleteOne(@, upload.doc[p].id)]
  /\ UNCHANGED notUploads

\* deleteFile, try { unlinkSync(path) } catch {}
DeleteFileUnlink(p) ==
  /\ upload.at[p] = "unlinkSync"
  /\ upload' = [UploadStep(p, "idle", upload.doc[p])
                  EXCEPT !.disk = Without(@, {upload.doc[p].name})]
  /\ UNCHANGED notUploads

\* checkFileExist, findOne({ name, type }): a name without a record is
\* answered with CannotFindException.
CheckFileExistFindOne(p) ==
  /\ upload.at[p] = "idle"
  /\ upload.calls < MaxUploads
  /\ \E name \in HashedNames :
       upload' =
         [(IF name \in DOMAIN upload.files
             THEN UploadStep(p, "readFileSync",
                             [id |-> upload.files[name].id, name |-> name,
                              data |-> 0])
             ELSE UploadStep(p, "idle", [id |-> 0, name |-> name, data |-> 0]))
            EXCEPT !.calls = @ + 1]
  /\ UNCHANGED notUploads

\* checkFileExist, readFileSync: the content is returned; when the file
\* cannot be read the record that was found is removed.
CheckFileExistRead(p) ==
  /\ upload.at[p] = "readFileSync"
  /\ LET name == upload.doc[p].name
     IN  upload' =
           IF name \in DOMAIN upload.disk
             THEN UploadStep(p, "idle", [upload.doc[p] EXCEPT
                                           !.data = upload.disk[name]])
             ELSE [UploadStep(p, "idle", upload.doc[p])
                     EXCEPT !.files = deleteOne(@, upload.doc[p].id)]
  /\ UNCHANGED notUploads

\* ------------------------------------------------------------ behaviours
Next ==
  \/ \E p \in Procs : Comment(p)
  \/ \E p \in Procs : CommentReturn(p)
  \/ \E c \in CommentIds : SpamVerdict(c)
  \/ \E c \in CommentIds : SpamContinue(c)
  \/ \E c \in CommentIds : NotifySettles(c)
  \/ \E p \in Procs : ReplyByCid(p)
  \/ \E p \in Procs : ReplyFind(p)
  \/ \E p \in Procs : ReplyCreate(p)
  \/ \E p \in Procs : ReplyUpdate(p)
  \/ \E p \in Procs : ModifyCommentState(p)

Spec == Init /\ [][Next]_vars

NextLegacy ==
  \/ \E p \in Procs : LegacyComment(p)
  \/ \E p \in Procs : ReplyByCid(p)
  \/ \E p \in Procs : ReplyFind(p)
  \/ \E p \in Procs : LegacyReplyCreate(p)
  \/ \E p \in Procs : LegacyReplyUpdate(p)
  \/ \E p \in Procs : ModifyCommentState(p)

SpecLegacy == Init /\ [][NextLegacy]_vars

\* The listing endpoints and the post handlers.
NextContent ==
  \/ GetAll
  \/ GetCommentsByRefId
  \/ GetNotes
  \/ GetAnalyze
  \/ GetAnalyzeToday
  \/ CreatePost
  \/ ModifyPost

SpecContent == Init /\ [][NextContent]_vars

\* The life of the posts: created, modified, deleted.
NextPosts ==
  \/ CreatePost
  \/ ModifyPost
  \/ DeletePost
  \/ DeletePostComments

SpecPosts == Init /\ [][NextPosts]_vars

\* The backup task.
NextBackup ==
  \/ BackupDB
  \/ UploadSettles

SpecBackup == Init /\ [][NextBackup]_vars

\* The public listing of a target's comments, asked for its first page of 50
\* at any moment of a run in which comments, replies and moderation are
\* served one request at a time and the spam check takes its time.
NextPublic ==
  \/ /\ listing = NoListing
     /\ \/ Comment(1)
        \/ CommentReturn(1)
        \/ \E c \in CommentIds : SpamVerdict(c)
        \/ \E c \in CommentIds : SpamContinue(c)
        \/ ReplyByCid(1)
        \/ ReplyFind(1)
        \/ ReplyCreate(1)
        \/ ReplyUpdate(1)
        \/ ModifyCommentState(1)
  \/ /\ listing = NoListing
     /\ GetCommentsByRefId
     /\ listing'.page = Num(1)
     /\ listing'.size = 50

SpecPublic == Init /\ [][NextPublic]_vars

\* The notes and the list around one note.
NextNotes ==
  \/ CreateNote
  \/ GetNoteList

SpecNotes == Init /\ [][NextNotes]_vars

\* The read endpoints of posts and notes.
NextReads ==
  \/ CreatePost
  \/ CreateNote
  \/ GetAll
  \/ GetById
  \/ GetByCateAndSlug
  \/ GetNotes
  \/ GetOneNote
  \/ GetNoteList

SpecReads == Init /\ [][NextReads]_vars

\* Categories and the posts filed in them.
NextCategories ==
  \/ CreatePost
  \/ DeletePost
  \/ DeletePostComments
  \/ CreateCategory
  \/ \E p \in Procs : DeleteCategoryFindById(p)
  \/ \E p \in Procs : DeleteCategoryFindPosts(p)
  \/ \E p \in Procs : DeleteCategoryDeleteOne(p)
  \/ \E p \in Procs : DeleteCategoryCount(p)
  \/ \E p \in Procs : DeleteCategoryCreateDefault(p)
  \/ \E p \in Procs : DeleteCategoryReturn(p)

SpecCategories == Init /\ [][NextCategories]_vars

\* The categories alone: the only post is deleted or stays.
NextDeletes ==
  \/ DeletePost
  \/ DeletePostComments
  \/ CreateCategory
  \/ \E p \in Procs : DeleteCategoryFindById(p)
  \/ \E p \in Procs : DeleteCategoryFindPosts(p)
  \/ \E p \in Procs : DeleteCategoryDeleteOne(p)
  \/ \E p \in Procs : DeleteCategoryCount(p)
  \/ \E p \in Procs : DeleteCategoryCreateDefault(p)
  \/ \E p \in Procs : DeleteCategoryReturn(p)

SpecDeletes == Init /\ [][NextDeletes]_vars

\* The upload handlers.
NextUploads ==
  \/ \E p \in Procs : SaveImageUpdateOne(p)
  \/ \E p \in Procs : SaveImageWrite(p)
  \/ \E p \in Procs : DeleteFileFindById(p)
  \/ \E p \in Procs : DeleteFileDeleteOne(p)
  \/ \E p \in Procs : DeleteFileUnlink(p)
  \/ \E p \in Procs : CheckFileExistFindOne(p)
  \/ \E p \in Procs : CheckFileExistRead(p)

SpecUploads == Init /\ [][NextUploads]_vars

\* The detached promise of comment() runs its continuation once checkSpam
\* has settled: the event loop does not starve a resolved promise.
FairSpec == Spec /\ \A c \in CommentIds : WF_vars(SpamContinue(c))

TypeOK ==
  /\ nextId \in 1..(MaxComments + 1)
  /\ Existing = 1..(nextId - 1)
  /\ calls \in 0..MaxCalls

\* ================================================================ claims
Suffix(c) == comments[c].key[Len(comments[c].key)]
Occurrences(seq, x) == Cardinality({i \in DOMAIN seq : seq[i] = x})
RepliesTo(P) == {c \in Existing : comments[c].parent = P}
\* Replies whose handler has inserted the child and not yet updated the parent.
Unlinked == {comment[q] : q \in {r \in Procs : pc[r] = "r_update"}}

\* C1: a reply to parent P, read with commentsIndex n, creates a child whose
\* key is P.key followed by n; the update of P that completes the call adds
\* 1 to P.commentsIndex and leaves the child's id in P.children exactly once.
C1_ReplyKeyAndIndex ==
  [][\A p \in Procs :
       /\ (pc[p] = "r_create" /\ pc'[p] # "r_create")
            => /\ nextId \in DOMAIN comments'
               /\ comments'[nextId].key =
                    Append(parent[p].key, parent[p].commentsIndex)
       /\ (pc[p] \in {"r_update", "lr_update"} /\ pc'[p] = "idle")
            => /\ comments'[parent[p].id].commentsIndex =
                    comments[parent[p].id].commentsIndex + 1
               /\ Occurrences(comments'[parent[p].id].children, comment[p]) = 1]_vars

\* C2: however the steps of concurrent replies to the same parent P
\* interleave, every reply that has completed has added exactly 1 to
\* P.commentsIndex and its child id is in P.children exactly once: no
\* increment and no child is lost.
C2_NoLostUpdate ==
  \A P \in Existing :
    /\ comments[P].commentsIndex = Cardinality(RepliesTo(P) \ Unlinked)
    /\ \A c \in RepliesTo(P) \ Unlinked : Occurrences(comments[P].children, c) = 1

\* Two replies to the same parent have both completed, and both computed
\* their key from the same read of the parent: their steps interleaved.
C2_Witness ==
  \E P \in Existing : \E c, d \in RepliesTo(P) :
    /\ c # d
    /\ comments[c].key = comments[d].key
    /\ comments[P].commentsIndex = 2
    /\ {c, d} \cap Unlinked = {}

\* C3: the children of a parent get pairwise distinct key suffixes that
\* increase in creation order, also when the replies interleave.
C3_SuffixesIncrease ==
  \A P \in Existing : \A c, d \in RepliesTo(P) :
    c < d => Suffix(c) < Suffix(d)

\* C4: no top-level comment is created on a target whose comments are
\* switched off (the request fails with Forbidden instead).
C4_ClosedTargetHasNoComment ==
  \A c \in Existing :
    comments[c].parent = 0 => Targets[comments[c].ref].allowComment

\* C5: a reply to a comment id that does not exist is answered NotFound,
\* inserts no document and leaves every stored comment as it is.
C5_ReplyToMissingParent ==
  [][\A p \in Procs :
       (pc[p] = "r_find" /\ pc'[p] # "r_find" /\ req[p].id \notin Existing)
         => /\ resp' = [op |-> "reply", status |-> "NotFound", id |-> 0, state |-> NoVal]
            /\ pc'[p] = "idle"
            /\ comments' = comments
            /\ nextId' = nextId]_vars

C5_Witness ==
  /\ resp = [op |-> "reply", status |-> "NotFound", id |-> 0, state |-> NoVal]
  /\ \E c \in CommentIds : c \notin Existing

\* C6: a reply has the ref and refType of its parent, whatever the body of
\* the request carries.
C6_ReplyKeepsTarget ==
  \A c \in Existing :
    comments[c].parent # 0 =>
      /\ comments[c].ref = comments[comments[c].parent].ref
      /\ comments[c].refType = comments[comments[c].parent].refType

\* C7: the handler that created a comment answers ok while the spam check
\* (top-level comment) or the notification (reply) is still outstanding, and
\* a later failure of that detached work changes neither the response nor
\* any handler.
C7_DetachedSideEffects ==
  [][/\ \A p \in Procs :
          (pc[p] = "c_return" /\ pc'[p] = "idle")
            => /\ resp' = [op |-> "comment", status |-> "ok", id |-> comment[p], state |-> NoVal]
               /\ task'[comment[p]] \in {"pending", "pendingMaster"}
     /\ \A p \in Procs :
          (pc[p] = "r_update" /\ pc'[p] = "idle")
            => /\ resp' = [op |-> "reply", status |-> "ok", id |-> 0, state |-> NoVal]
               /\ task'[comment[p]] = "notify"
     /\ \A c \in CommentIds :
          (task'[c] = "failed" /\ task[c] # "failed")
            => (resp' = resp /\ pc' = pc /\ comments' = comments)]_vars

\* A creation was answered ok and its detached work failed afterwards.
C7_Witness ==
  /\ resp.op = "comment" /\ resp.status = "ok"
  /\ task[resp.id] = "failed"

\* C8: a spam verdict on a new top-level comment is only ever there after
\* the creating handler has returned, the verdict is only left by the step
\* that stores the comment as Junk, and it is always left eventually: a
\* comment found to be spam eventually is Junk.
C8_SpamLeadsToJunk ==
  /\ [](\A c \in CommentIds : task[c] = "spam" => \A p \in Procs : comment[p] # c)
  /\ [][\A c \in CommentIds :
         (task[c] = "spam" /\ task'[c] # "spam")
           => (c \in DOMAIN comments' /\ comments'[c].state = CommentState.Junk)]_vars
  /\ \A c \in CommentIds : []<>(task[c] # "spam")

C8_Witness ==
  \E c \in Existing :
    /\ task[c] = "junked"
    /\ comments[c].state = CommentState.Junk
    /\ comments[c].parent = 0

\* C9: moderate on an existing comment succeeds from every state to every
\* state, and the stored state is then the requested one.  (A request that
\* is served in one step raises calls and leaves every pc as it is.)
C9_ModerateAnyTransition ==
  [][\A c \in Existing :
       (calls' # calls /\ pc' = pc /\ resp'.op = "moderate" /\ resp'.id = c)
         => /\ resp'.status = "ok"
            /\ comments'[c].state = resp'.state]_vars

\* A comment that the spam check had marked Junk and that has no replies is
\* Read after a moderate call: the transition Junk -> Read was accepted.
C9_Witness ==
  \E c \in Existing :
    /\ task[c] = "junked"
    /\ comments[c].children = <<>>
    /\ comments[c].state = CommentState.Read
    /\ resp = [op |-> "moderate", status |-> "ok", id |-> c, state |-> CommentState.Read]

\* C10: moderate on a comment id that does not exist is answered NotFound.
C10_ModerateMissing ==
  (resp.op = "moderate" /\ resp.id \notin Existing) => resp.status = "NotFound"

\* C11: no step changes the key of a stored comment (creation of another
\* comment, the parent update of a reply, moderate, the Junk transition of
\* the spam check), and a reply whose request body carries a key is stored
\* under the key computed from its parent, not under the key of the body.
C11_KeyImmutable ==
  [][/\ \A c \in Existing : comments'[c].key = comments[c].key
     /\ \A p \in Procs :
          (pc[p] = "r_create" /\ pc'[p] = "r_update" /\ req[p].body.key # <<>>)
            => comments'[nextId].key =
                 Append(parent[p].key, parent[p].commentsIndex)]_vars

\* A reply whose body carried a key has been inserted under the computed key
\* and its parent has since been moderated to Junk under an unchanged key.
C11_Witness ==
  \E p \in Procs :
    /\ pc[p] = "r_update"
    /\ req[p].body.key # <<>>
    /\ comments[comment[p]].key = Append(parent[p].key, parent[p].commentsIndex)
    /\ comments[parent[p].id].state = CommentState.Junk
    /\ comments[parent[p].id].key = parent[p].key

\* C12: the update that completes a reply created as Read appends the child
\* to the children of the parent, adds 1 to commentsIndex and leaves the
\* parent Read, all in that one step: the child is never in the children of
\* its parent with the promotion still to come.
C12_PromotionInSameUpdate ==
  [][\A p \in Procs :
       (pc[p] = "r_update" /\ req[p].body.state = CommentState.Read)
         => LET P == parent[p].id
            IN  /\ Occurrences(comments[P].children, comment[p]) = 0
                /\ pc'[p] # "r_update"
                      => /\ Occurrences(comments'[P].children, comment[p]) = 1
                         /\ comments'[P].commentsIndex = comments[P].commentsIndex + 1
                         /\ comments'[P].state = CommentState.Read]_vars

\* The only request served is the master's reply to comment 1, which was
\* Unread: comment 1 holds the child and is Read.
C12_Witness ==
  /\ calls = 1
  /\ resp.op = "reply" /\ resp.status = "ok"
  /\ comments[1].children = <<2>>
  /\ comments[2].state = CommentState.Read
  /\ comments[1].state = CommentState.Read

\* C13: a comment request that has passed the author check and names a
\* target that does not exist (for its refType) is answered NotFound, under
\* either controller, and inserts no document; no top-level comment is ever
\* inserted on a target that does not exist.
C13_MissingTarget ==
  [][/\ \A p \in Procs : \A t \in RequestTargets, who \in Callers :
          ( /\ CommentOn(p, t, who) \/ LegacyCommentOn(p, t, who)
            /\ who.isMaster \/ who.authorOk
            /\ ~targetExists(t.id, t.refType) )
            => /\ resp' = [op |-> "comment", status |-> "NotFound",
                           id |-> 0, state |-> NoVal]
               /\ pc'[p] = "idle"
               /\ comments' = comments
               /\ nextId' = nextId
     /\ \A c \in DOMAIN comments' \ Existing :
          comments'[c].parent = 0
            => targetExists(comments'[c].ref, comments'[c].refType)]_vars

\* The only request served was a comment on a missing target: it was
\* answered NotFound and the store holds the comment it started with.
C13_Witness ==
  /\ calls = 1
  /\ resp = [op |-> "comment", status |-> "NotFound", id |-> 0, state |-> NoVal]
  /\ Existing = {1}

C15_EveryCommentAnnounced ==
  \A c \in Existing :
    comments[c].parent = 0 => task[c] \notin {"ended", "junked"}

\* C15, amended: when the spam check of a top-level comment settles, a
\* guest's comment is announced in that same continuation unless it is spam
\* or the check failed, and the master's comment is never announced; a
\* top-level comment is announced at no other moment.
C15_GuestCommentAnnounced ==
  [][\A c \in Existing :
       comments[c].parent = 0 =>
         /\ (task[c] = "pending" /\ task'[c] # "pending")
               => task'[c] \in {"notify", "spam", "failed"}
         /\ (task[c] = "pendingMaster" /\ task'[c] # "pendingMaster")
               => task'[c] \in {"ended", "spam", "failed"}
         /\ (task'[c] = "notify" /\ task[c] # "notify") => task[c] = "pending"]_vars

\* A guest's comment has been announced and the detached work of the
\* master's comment has ended without an announcement.
C15_Witness ==
  \E c, d \in Existing \ {1} :
    /\ comments[c].parent = 0 /\ comments[d].parent = 0
    /\ task[c] \in {"notify", "notified"}
    /\ task[d] = "ended"
\* A listing request that reached the paginated query.
Queried == listing.status \notin {"none", "BadInput"}

\* C16: for every page >= 1 and size in 1..50, each listing endpoint hands
\* skip = (page - 1) * size and limit = size to the paginated query.
C16_SkipAndLimit ==
  (/\ listing.endpoint # "none"
   /\ AtLeastOne(listing.page)
   /\ listing.size \in 1..50)
    => /\ Queried
       /\ listing.skip = Times(Minus(listing.page, 1), listing.size)
       /\ listing.limit = listing.size

\* C17: a size outside 1..50 is clamped to the nearest bound and the listing
\* is served, not rejected (0 counts as 1, 1000 as 50); the limit given to
\* the store is always within 1..50.
C17_SizeClamped ==
  /\ (/\ listing.endpoint # "none"
      /\ AtLeastOne(listing.page)
      /\ listing.size \notin 1..50)
       => /\ listing.status # "BadInput"
          /\ listing.limit = IF listing.size < 1 THEN 1 ELSE 50
  /\ Queried => listing.limit \in 1..50

\* The documents a listing request selects, in the order it asks for.
Matching(l) ==
  IF l.endpoint = "posts" THEN SortedDesc(VisiblePosts(l.isMaster))
  ELSE IF l.endpoint = "comments" THEN SortedDesc(RootsOf(l.ref))
  ELSE IF l.endpoint = "notes" THEN SortedDesc(VisibleNotes(l.isMaster))
  ELSE <<>>

C19_ModifyMissingPost ==
  [][(/\ modified' # modified
      /\ modified'.status # "none"
      /\ modified'.id \notin DOMAIN posts)
       => /\ modified'.status = "ok"
          /\ modified'.nModified = 0
          /\ modified'.message = "no post was modified"
          /\ posts' = posts]_vars

C19_Witness ==
  /\ modified.status = "ok"
  /\ modified.id \notin DOMAIN posts
  /\ modified.nModified = 0
  /\ modified.message = "no post was modified"

\* C20: a guest whose author name ValidAuthorName rejects gets an error from
\* comment and from reply before any write: no comment is created and no
\* parent is updated.  The master is never validated: a master request with
\* such a name is not answered with that error.
C20_AuthorValidatedFirst ==
  [][\A p \in Procs, who \in Callers :
       LET commentStep == \E t \in RequestTargets : CommentOn(p, t, who)
           replyStep == \E id \in CommentIds : ReplyOn(p, id, who)
       IN  /\ (~who.isMaster /\ ~who.authorOk /\ (commentStep \/ replyStep))
                => /\ pc'[p] = "idle"
                   /\ resp'.status = "BadInput"
                   /\ resp'.op = IF commentStep THEN "comment" ELSE "reply"
                   /\ comments' = comments
                   /\ nextId' = nextId
                   /\ task' = task
           /\ (who.isMaster /\ ~who.authorOk /\ (commentStep \/ replyStep))
                => \/ pc'[p] # "idle"
                   \/ resp'.status # "BadInput"]_vars

\* Two requests were answered, the last one a refused reply, and the store
\* still holds only the first comment.
C20_Witness ==
  /\ calls = 2
  /\ resp.status = "BadInput"
  /\ resp.op = "reply"
  /\ nextId = 2
  /\ \A p \in Procs : pc[p] = "idle"

\* C21: once deletePost(id) has completed, no stored comment references the
\* deleted post.
C21_NoCommentOfDeletedPost ==
  \A id \in PostIds :
    removal[id] = "done"
      => \A c \in Existing :
           ~(comments[c].refType = CommentRefTypes.Post /\ comments[c].ref = id)

\* C22: a call of backupDB makes one attempt.  Disabled, it does nothing.
\* When the dump or the zip fails it logs an error and returns nothing,
\* having run each command at most once and without starting the upload.
\* An upload is started only by a call whose dump and zip both succeeded.
C22_SingleAttempt ==
  [][backup'.calls # backup.calls
       => /\ backup'.dumps <= backup.dumps + 1
          /\ backup'.zips <= backup.zips + 1
          /\ backup'.uploads <= backup.uploads + 1
          /\ ~backup'.enable
               => /\ backup'.dumps = backup.dumps
                  /\ backup'.zips = backup.zips
                  /\ backup'.uploads = backup.uploads
                  /\ backup'.log = <<>>
                  /\ backup'.result = "none"
          /\ (backup'.dump = "failed" \/ backup'.zip = "failed")
               => /\ backup'.log = <<"backing up", "error: backup failed">>
                  /\ backup'.result = "none"
                  /\ backup'.uploads = backup.uploads
                  /\ backup'.dump = "failed" => backup'.zips = backup.zips
          /\ backup'.uploads # backup.uploads
               => /\ backup'.dump = "ok"
                  /\ backup'.zip = "ok"]_vars

\* A call whose dump failed has been followed by a call that started the
\* upload.
C22_Witness ==
  /\ backup.calls = 2
  /\ backup.dumps = 2
  /\ backup.zips = 1
  /\ backup.uploads = 1
  /\ backup.dump = "ok"

\* C23: getNoteList(id, size) returns the notes centred on the given note:
\* the current note is in the result, the result has at most size entries,
\* is ordered newest first, and is a contiguous window of the visible notes
\* in creation order.
C23_WindowAroundNote ==
  [][(shown' # shown /\ shown'.endpoint = "noteList" /\ shown'.status = "ok")
       => LET data == shown'.data
              ids == {data[i] : i \in DOMAIN data}
              visible == VisibleNotes(shown'.isMaster)
          IN  /\ shown'.id \in ids
              /\ Len(data) <= shown'.size
              /\ \A i \in DOMAIN data : \A j \in DOMAIN data :
                   i < j => data[i] > data[j]
              /\ \A n \in visible :
                   (\E a \in ids : a <= n) /\ (\E b \in ids : n <= b)
                     => n \in ids]_vars

C25_ReplyKeepsModeration ==
  [][\A p \in Procs :
       (/\ pc[p] = "r_update"
        /\ pc'[p] = "idle"
        /\ comments[comment[p]].state # CommentState.Read
        /\ resp.op = "moderate"
        /\ resp.status = "ok"
        /\ resp.id = parent[p].id
        /\ comments[parent[p].id].state = resp.state)
         => comments'[parent[p].id].state = resp.state]_vars

\* C26: the public listing of a target's comments returns only thread roots
\* of that target whose state is Unread or Read; a comment that is Junk when
\* the query runs is not in the result.
C26_ListingHidesJunk ==
  [][(listing' # listing /\ listing'.endpoint = "comments"
        /\ listing'.status = "ok")
       => \A i \in DOMAIN listing'.data :
            LET c == listing'.data[i]
            IN  /\ c \in Existing
                /\ comments[c].parent = 0
                /\ comments[c].ref = listing'.ref
                /\ comments[c].state \in {CommentState.Unread, CommentState.Read}
                /\ comments[c].state # CommentState.Junk]_vars

\* A listing of a target that has a Junk root and a reply: it shows another
\* root and neither of them.
C26_Witness ==
  /\ listing.endpoint = "comments"
  /\ listing.status = "ok"
  /\ Len(listing.data) = 1
  /\ \E j \in Existing :
       /\ comments[j].state = CommentState.Junk
       /\ comments[j].parent = 0
       /\ comments[j].ref = listing.ref
       /\ listing.data[1] # j
  /\ \E r \in Existing :
       /\ comments[r].parent # 0
       /\ comments[r].ref = listing.ref

C28_NoPostWithoutCategory ==
  \A i \in DOMAIN posts : posts[i].categoryId \in category.stored

\* C29 as stated: at the return of every deleteCategory call at least one
\* category is stored.
C29_Original ==
  [][\A p \in Procs :
       (category.at[p] = "return" /\ category'.at[p] = "idle")
         => category'.stored # {}]_vars

\* C29: at the return of a deleteCategory call at least one category is
\* stored, unless another call is between its deleteOne and the creation of
\* the default category; when the last call in progress returns, at least
\* one category is stored.
C29_CategoryRemains ==
  [][\A p \in Procs :
       (category.at[p] = "return" /\ category'.at[p] = "idle")
         => \/ category'.stored # {}
            \/ \E q \in Procs \ {p} :
                 category'.at[q] \in {"countDocument", "createDefaultCategory"}]_vars

\* Two calls have deleted the last two categories and both have returned.
C29_Witness ==
  /\ \A p \in Procs : category.at[p] = "idle"
  /\ category.resp.status = "ok"
  /\ category.stored \cap {1, 2} = {}
  /\ category.made >= 3

\* C30: when the saveImage and deleteFile calls made so far have returned,
\* every file record has a file on disk under its hashed name, and the file
\* holds the data of the latest saveImage that wrote the record's metadata.
C30_RecordMatchesDisk ==
  (\A p \in Procs : upload.at[p] = "idle")
    => \A name \in DOMAIN upload.files :
         /\ name \in DOMAIN upload.disk
         /\ upload.disk[name] = upload.files[name].data

====
